---- MODULE Spec2Model ----
(***************************************************************************)
(* A model of procmaps.rs: Map::parse (src/src/lib.rs), the Display impls  *)
(* of AddressRange, Permissions and Device, and the Maps iterator.         *)
(*                                                                         *)
(* Text is a sequence of one-character strings.  A u64 is a tuple of four  *)
(* 16-bit limbs, most significant first, so that 64-bit overflow is exact. *)
(***************************************************************************)
EXTENDS Integers, Sequences, FiniteSets, TLC

\* ------------------------------------------------------------------ text

HexDigits == <<"0","1","2","3","4","5","6","7","8","9","a","b","c","d","e","f">>

HexChars == {HexDigits[i] : i \in 1..16}

DecChars == {HexDigits[i] : i \in 1..10}

NL == "\n"

Whitespace == {" "}

Last(s) == s[Len(s)]

ends_with(s, c) == Len(s) > 0 /\ s[Len(s)] = c

starts_with(s, c) == Len(s) > 0 /\ s[1] = c

\* ------------------------------------------------------------------- u64

LimbBase == 2^16

U64Zero == <<0, 0, 0, 0>>

\* v * m + d over the limbs: [val |-> the low 64 bits, carry |-> what is lost]
MulAdd(v, m, d) ==
    LET t0 == v[4] * m + d
        t1 == v[3] * m + (t0 \div LimbBase)
        t2 == v[2] * m + (t1 \div LimbBase)
        t3 == v[1] * m + (t2 \div LimbBase)
    IN  [val   |-> <<t3 % LimbBase, t2 % LimbBase, t1 % LimbBase, t0 % LimbBase>>,
         carry |-> t3 \div LimbBase]

\* v divided by m (m < 2^15): [quot |-> v / m, rem |-> v % m]
DivMod(v, m) ==
    LET c1 == v[1]
        c2 == (c1 % m) * LimbBase + v[2]
        c3 == (c2 % m) * LimbBase + v[3]
        c4 == (c3 % m) * LimbBase + v[4]
    IN  [quot |-> <<c1 \div m, c2 \div m, c3 \div m, c4 \div m>>,
         rem  |-> c4 % m]

\* char::to_digit: the digit's value, or -1 when c is no digit of the radix
to_digit(c, radix) ==
    IF \E i \in 1..radix : HexDigits[i] = c
      THEN (CHOOSE i \in 1..radix : HexDigits[i] = c) - 1
      ELSE -1

RECURSIVE from_str_radix_wrapping_loop(_, _, _, _)
from_str_radix_wrapping_loop(src, radix, i, acc) ==
    IF i > Len(src) THEN [ok |-> TRUE, val |-> acc]
    ELSE LET d == to_digit(src[i], radix)
         IN  IF d < 0 THEN [ok |-> FALSE, val |-> U64Zero]
             ELSE from_str_radix_wrapping_loop(src, radix, i + 1,
                                               MulAdd(acc, radix, d).val)

\* from_str_radix with wrapping_mul and wrapping_add in place of the checked
\* ones: a value of 2^64 or more is cut to its low 64 bits.
from_str_radix_wrapping(src, radix) ==
    IF Len(src) = 0 THEN [ok |-> FALSE, val |-> U64Zero]
    ELSE from_str_radix_wrapping_loop(src, radix, 1, U64Zero)

RECURSIVE from_str_radix_loop(_, _, _, _)
from_str_radix_loop(src, radix, i, acc) ==
    IF i > Len(src) THEN [ok |-> TRUE, val |-> acc]
    ELSE LET d == to_digit(src[i], radix)
             r == MulAdd(acc, radix, d)
         IN  IF d < 0 \/ r.carry > 0
               THEN [ok |-> FALSE, val |-> U64Zero]
               ELSE from_str_radix_loop(src, radix, i + 1, r.val)

\* u64::from_str_radix(src, radix): Ok(value), or Err(ParseIntError) on an
\* empty token, a character that is no digit, or a value of 2^64 or more.
from_str_radix(src, radix) ==
    IF Len(src) = 0 THEN [ok |-> FALSE, val |-> U64Zero]
    ELSE from_str_radix_loop(src, radix, 1, U64Zero)

RECURSIVE Numeral(_, _)
\* The digits of v in the radix, most significant first, no leading zero
\* ("0" for zero): what {:x} and {} print.
Numeral(v, radix) ==
    LET qr == DivMod(v, radix)
    IN  IF qr.quot = U64Zero THEN <<HexDigits[qr.rem + 1]>>
        ELSE Append(Numeral(qr.quot, radix), HexDigits[qr.rem + 1])

\* ------------------------------------------------------ grammar (map.pest)

RECURSIVE Span(_, _, _)
\* The first index at or after i whose character is not in cs (Len(s) + 1
\* when there is none): the end of the longest run of cs that starts at i.
Span(s, i, cs) ==
    IF i <= Len(s) /\ s[i] \in cs THEN Span(s, i + 1, cs) ELSE i

\* MapParser::parse(Rule::map, line): the six fields of one record, in order,
\* separated by whitespace; the pathname is the remainder of the line with
\* the whitespace that separates it from the inode removed.
MapParser_parse(line) ==
    LET n    == Len(line)
        b1   == 1
        b2   == Span(line, b1, HexChars)
        e1   == b2 + 1
        e2   == Span(line, e1, HexChars)
        p1   == Span(line, e2, Whitespace)
        p2   == p1 + 4
        o1   == Span(line, p2, Whitespace)
        o2   == Span(line, o1, HexChars)
        ma1  == Span(line, o2, Whitespace)
        ma2  == Span(line, ma1, HexChars)
        mi1  == ma2 + 1
        mi2  == Span(line, mi1, HexChars)
        i1   == Span(line, mi2, Whitespace)
        i2   == Span(line, i1, DecChars)
        n1   == Span(line, i2, Whitespace)
        ok   == /\ b2 > b1 /\ b2 <= n /\ line[b2] = "-"
                /\ e2 > e1
                /\ p1 > e2 /\ p2 - 1 <= n
                /\ line[p1] \in {"r", "-"}
                /\ line[p1 + 1] \in {"w", "-"}
                /\ line[p1 + 2] \in {"x", "e", "-"}
                /\ line[p1 + 3] \in {"s", "p"}
                /\ o1 > p2
                /\ o2 > o1
                /\ ma1 > o2
                /\ ma2 > ma1 /\ ma2 <= n /\ line[ma2] = ":"
                /\ mi2 > mi1
                /\ i1 > mi2
                /\ i2 > i1
                /\ (i2 <= n => n1 > i2)
    IN  IF ok
          THEN [ok |-> TRUE,
                address_begin |-> SubSeq(line, b1, b2 - 1),
                address_end   |-> SubSeq(line, e1, e2 - 1),
                permissions   |-> SubSeq(line, p1, p2 - 1),
                offset        |-> SubSeq(line, o1, o2 - 1),
                major         |-> SubSeq(line, ma1, ma2 - 1),
                minor         |-> SubSeq(line, mi1, mi2 - 1),
                inode         |-> SubSeq(line, i1, i2 - 1),
                pathname      |-> SubSeq(line, n1, n)]
          ELSE [ok |-> FALSE]

\* ------------------------------------------------------------ Map::parse

K_stack == <<"[","s","t","a","c","k","]">>

K_vdso == <<"[","v","d","s","o","]">>

K_vvar == <<"[","v","v","a","r","]">>

K_vsyscall == <<"[","v","s","y","s","c","a","l","l","]">>

K_heap == <<"[","h","e","a","p","]">>

PSUEDO_PATH_MAP ==
    (K_stack :> "Stack") @@ (K_vdso :> "Vdso") @@ (K_vvar :> "Vvar")
      @@ (K_vsyscall :> "Vsyscall") @@ (K_heap :> "Heap")

Pathname(tag, text) == [tag |-> tag, text |-> text]

Map_default ==
    [address_range |-> [begin |-> U64Zero, end |-> U64Zero],
     permissions   |-> [readable |-> FALSE, writable |-> FALSE,
                        executable |-> FALSE, shared |-> FALSE,
                        private |-> FALSE],
     offset        |-> U64Zero,
     device        |-> [major |-> U64Zero, minor |-> U64Zero],
     inode         |-> U64Zero,
     pathname      |-> Pathname("Mmap", <<>>)]

\* Rule::address_range
parse_address_range(begin, end) ==
    LET b == from_str_radix(begin, 16)
        e == from_str_radix(end, 16)
    IN  [ok |-> b.ok /\ e.ok, val |-> [begin |-> b.val, end |-> e.val]]

\* Rule::permissions with the shared marker looked for one character early
parse_permissions_off_by_one(permissions) ==
    LET shared == permissions[3] = "s"
    IN  [readable   |-> permissions[1] = "r",
         writable   |-> permissions[2] = "w",
         executable |-> permissions[3] = "x",
         shared     |-> shared,
         private    |-> ~shared]

\* Rule::permissions
parse_permissions(permissions) ==
    LET shared == permissions[4] = "s"
    IN  [readable   |-> permissions[1] = "r",
         writable   |-> permissions[2] = "w",
         executable |-> permissions[3] = "x",
         shared     |-> shared,
         private    |-> ~shared]

\* Rule::offset
parse_offset(offset) == from_str_radix(offset, 16)

\* Rule::device
parse_device(major, minor) ==
    LET ma == from_str_radix(major, 16)
        mi == from_str_radix(minor, 16)
    IN  [ok |-> ma.ok /\ mi.ok, val |-> [major |-> ma.val, minor |-> mi.val]]

\* Rule::inode read in base 16 like every other number of the line
parse_inode_hex(inode) == from_str_radix(inode, 16)

\* Rule::inode
parse_inode(inode) == from_str_radix(inode, 10)

\* Rule::pathname with the bracket test before the table lookup
parse_pathname_brackets_first(pathname) ==
    IF Len(pathname) = 0 THEN Pathname("Mmap", <<>>)
    ELSE IF starts_with(pathname, "[") /\ ends_with(pathname, "]")
      THEN Pathname("OtherPseudo", pathname)
    ELSE IF pathname \in DOMAIN PSUEDO_PATH_MAP
      THEN Pathname(PSUEDO_PATH_MAP[pathname], <<>>)
    ELSE Pathname("Path", pathname)

\* Rule::pathname
parse_pathname(pathname) ==
    IF Len(pathname) = 0 THEN Pathname("Mmap", <<>>)
    ELSE IF pathname \in DOMAIN PSUEDO_PATH_MAP
      THEN Pathname(PSUEDO_PATH_MAP[pathname], <<>>)
    ELSE IF starts_with(pathname, "[") /\ ends_with(pathname, "]")
      THEN Pathname("OtherPseudo", pathname)
    ELSE Pathname("Path", pathname)

Ok(map) == [kind |-> "Ok", map |-> <<map>>, err |-> ""]

Err(e) == [kind |-> "Err", map |-> <<>>, err |-> e]

\* a panic of parse: no Result is returned
Panic == [kind |-> "Panic", map |-> <<>>, err |-> ""]

\* Map::parse(line) -> Result<Map, Error>
parse(line) ==
    LET parsed == MapParser_parse(line)
        ar == parse_address_range(parsed.address_begin, parsed.address_end)
        of == parse_offset(parsed.offset)
        dv == parse_device(parsed.major, parsed.minor)
        ino == parse_inode(parsed.inode)
    IN  IF ~parsed.ok THEN Err("ParseError")
        ELSE IF ~ar.ok THEN Err("WidthError")
        ELSE IF Len(parsed.permissions) < 4 THEN Panic
        ELSE IF ~(of.ok /\ dv.ok /\ ino.ok) THEN Err("WidthError")
        ELSE Ok([Map_default EXCEPT
                   !.address_range = ar.val,
                   !.permissions   = parse_permissions(parsed.permissions),
                   !.offset        = of.val,
                   !.device        = dv.val,
                   !.inode         = ino.val,
                   !.pathname      = parse_pathname(parsed.pathname)])

\* ---------------------------------------------------------------- Display

\* {:0w}: zero-padded on the left to at least w characters
PadZero(s, w) == [i \in 1..(IF Len(s) < w THEN w - Len(s) ELSE 0) |-> "0"] \o s

\* impl fmt::Display for AddressRange
fmt_AddressRange(self) ==
    Numeral(self.begin, 16) \o <<"-">> \o Numeral(self.end, 16)

\* impl fmt::Display for Permissions
fmt_Permissions(self) ==
    << IF self.readable THEN "r" ELSE "-",
       IF self.writable THEN "w" ELSE "-",
       IF self.executable THEN "e" ELSE "-",
       IF self.shared THEN "s" ELSE "p" >>

\* impl fmt::Display for Device
fmt_Device(self) ==
    PadZero(Numeral(self.major, 10), 2) \o <<"-">>
      \o PadZero(Numeral(self.minor, 10), 2)

\* ------------------------------------------------------------ Maps::next

None == [kind |-> "None", map |-> <<>>, err |-> ""]

\* BufRead::read_line on the reader.  A read that succeeds appends the text
\* up to and including the next newline (or up to the end of the stream) and
\* returns its length; a read that fails returns Err and appends nothing, and
\* has either consumed nothing or (eat) consumed the line it could not
\* deliver.
read_line(rd, fail, eat) ==
    LET nl   == Span(rd, 1, {c \in {rd[i] : i \in 1..Len(rd)} : c # NL})
        n    == IF nl <= Len(rd) THEN nl ELSE Len(rd)
        line == SubSeq(rd, 1, n)
        rest == SubSeq(rd, n + 1, Len(rd))
    IN  IF fail
          THEN [res |-> "Err", n |-> 0, line |-> <<>>,
                rest |-> IF eat THEN rest ELSE rd]
          ELSE [res |-> "Ok", n |-> n, line |-> line, rest |-> rest]

\* line_buf.pop() whatever the last character is
pop_always(buf) == SubSeq(buf, 1, Len(buf) - 1)

\* if line_buf.ends_with('\n') { line_buf.pop(); }
pop_newline(buf) ==
    IF ends_with(buf, NL) THEN SubSeq(buf, 1, Len(buf) - 1) ELSE buf

\* Maps::next that takes a line that is empty once stripped for the end of
\* the stream
next_blank_line_ends(rd, fail, eat) ==
    LET r == read_line(rd, fail, eat)
    IN  IF r.res = "Ok" /\ pop_newline(r.line) = <<>>
          THEN [item |-> None, line_buf |-> r.line, reader |-> r.rest, read |-> r]
        ELSE IF r.res = "Ok"
          THEN LET buf == pop_newline(r.line)
               IN  [item |-> parse(buf), line_buf |-> buf, reader |-> r.rest,
                    read |-> r]
        ELSE [item |-> Err("Io"), line_buf |-> r.line, reader |-> r.rest,
              read |-> r]

\* Maps::next that gives up the rest of the stream when a line does not
\* decode
next_decode_error_ends(rd, fail, eat) ==
    LET r == read_line(rd, fail, eat)
    IN  IF r.res = "Ok" /\ r.n = 0
          THEN [item |-> None, line_buf |-> r.line, reader |-> r.rest, read |-> r]
        ELSE IF r.res = "Ok"
          THEN LET buf == pop_newline(r.line)
               IN  [item |-> parse(buf), line_buf |-> buf,
                    reader |-> IF parse(buf).kind = "Err" THEN <<>> ELSE r.rest,
                    read |-> r]
        ELSE [item |-> Err("Io"), line_buf |-> r.line, reader |-> r.rest,
              read |-> r]

\* Maps::next that ends the sequence on a failed read (Err(_) => None)
next_io_error_ends(rd, fail, eat) ==
    LET r == read_line(rd, fail, eat)
    IN  IF r.res = "Ok" /\ r.n = 0
          THEN [item |-> None, line_buf |-> r.line, reader |-> r.rest, read |-> r]
        ELSE IF r.res = "Ok"
          THEN LET buf == pop_newline(r.line)
               IN  [item |-> parse(buf), line_buf |-> buf, reader |-> r.rest,
                    read |-> r]
        ELSE [item |-> None, line_buf |-> r.line, reader |-> r.rest, read |-> r]

\* Maps::next on a Maps whose reader holds rd, when the read fails or not
\* (fail, eat): the item (None, Some(Ok(map)) or Some(Err(e))), line_buf as
\* the call leaves it, the reader afterwards, and what read_line returned.
next(rd, fail, eat) ==
    LET r == read_line(rd, fail, eat)
    IN  IF r.res = "Ok" /\ r.n = 0
          THEN [item |-> None, line_buf |-> r.line, reader |-> r.rest, read |-> r]
        ELSE IF r.res = "Ok"
          THEN LET buf == pop_newline(r.line)
               IN  [item |-> parse(buf), line_buf |-> buf, reader |-> r.rest,
                    read |-> r]
        ELSE [item |-> Err("Io"), line_buf |-> r.line, reader |-> r.rest,
              read |-> r]

\* ------------------------------------------------------------------ bounds

MaxLines == 2

MaxPulls == 4

MaxIoErrors == 1

\* ------------------------------------------------------------------ inputs

SP == <<" ">>

Line(begin, end, perms, offset, major, minor, inode, path) ==
    begin \o <<"-">> \o end \o SP \o perms \o SP \o offset \o SP
      \o major \o <<":">> \o minor \o SP \o inode
      \o (IF path = <<>> THEN <<>> ELSE SP \o path)

ex_begin == <<"5","6","0","8","d","d","3","9","1","0","0","0">>

ex_end == <<"5","6","0","8","d","d","3","b","e","0","0","0">>

ex_perms == <<"r","-","-","p">>

ex_offset == <<"0","0","0","0","0","0","0","0">>

ex_major == <<"0","8">>

ex_minor == <<"1","1">>

ex_inode == <<"6","5","7","2","5","7","5">>

ex_path == <<"/","b","i","n","/","b","a","s","h">>

\* 5608dd391000-5608dd3be000 r--p 00000000 08:11 6572575 /bin/bash
ExampleLine ==
    Line(ex_begin, ex_end, ex_perms, ex_offset, ex_major, ex_minor, ex_inode,
         ex_path)

HexTokens ==
    { <<"0">>,
      <<"0","0","0","0","0","0","0","0">>,
      <<"0","8">>,
      <<"1","1">>,
      <<"f","d">>,
      <<"1","a">>,
      <<"5","6","0","8","d","d","3","9","1","0","0","0">>,
      <<"f","f","f","f","f","f","f","f","f","f","f","f","f","f","f","f">>,
      <<"1","0","0","0","0","0","0","0","0","0","0","0","0","0","0","0","0">>,
      <<"0","0","0","0","0","0","0","0","0","0","0","0","0","0","0","0","1">>,
      <<"0","f","f","f","f","f","f","f","f","f","f","f","f","f","f","f","f">>,
      <<"f","f","f","f","f","f","f","f","f","f","f","f","f","f","f","f","f">> }

DecTokens ==
    { <<"0">>,
      <<"1","7">>,
      <<"6","5","7","2","5","7","5">>,
      <<"0","0","7">>,
      <<"1","8","4","4","6","7","4","4","0","7","3","7","0","9","5","5","1","6","1","5">>,
      <<"1","8","4","4","6","7","4","4","0","7","3","7","0","9","5","5","1","6","1","6">>,
      <<"9","9","9","9","9","9","9","9","9","9","9","9","9","9","9","9","9","9","9","9">>,
      <<"0","0","0","0","0","0","0","0","0","0","0","0","0","0","0","0","0","0","0","0","1">> }

PermTokens ==
    { <<r, w, x, s>> : r \in {"r", "-"}, w \in {"w", "-"},
                       x \in {"x", "e", "-"}, s \in {"s", "p"} }

PathTokens ==
    { <<>>,
      K_stack, K_vdso, K_vvar, K_vsyscall, K_heap,
      <<"[","a","n","o","n","]">>,
      <<"[","]">>,
      <<"[">>,
      <<"]">>,
      <<"[","s","t","a","c","k">>,
      <<"h","e","a","p","]">>,
      <<"[","h","e","a","p","]"," ">>,
      <<"[","s","t","a","c","k","]","x">>,
      ex_path,
      <<"/","a"," ","(","d","e","l","e","t","e","d",")">>,
      <<"/","b","i","n","/","b","a","s","h","\r">>,
      <<"/","x","[","0","]">> }

\* Lines of the record grammar: the example with one field (or the device
\* pair) replaced.
GoodLines ==
    {Line(t, ex_end, ex_perms, ex_offset, ex_major, ex_minor, ex_inode, ex_path) : t \in HexTokens}
    \cup {Line(ex_begin, t, ex_perms, ex_offset, ex_major, ex_minor, ex_inode, ex_path) : t \in HexTokens}
    \cup {Line(ex_begin, ex_end, t, ex_offset, ex_major, ex_minor, ex_inode, ex_path) : t \in PermTokens}
    \cup {Line(ex_begin, ex_end, ex_perms, t, ex_major, ex_minor, ex_inode, ex_path) : t \in HexTokens}
    \cup {Line(ex_begin, ex_end, ex_perms, ex_offset, t, u, ex_inode, ex_path) : t, u \in HexTokens}
    \cup {Line(ex_begin, ex_end, ex_perms, ex_offset, ex_major, ex_minor, t, ex_path) : t \in DecTokens}
    \cup {Line(ex_begin, ex_end, ex_perms, ex_offset, ex_major, ex_minor, ex_inode, t) : t \in PathTokens}
    \cup {Line(ex_begin, ex_end, ex_perms, ex_offset, ex_major, ex_minor, <<"0">>, <<>>) \o SP}

\* The example with its device field missing
NoDeviceLine ==
    ex_begin \o <<"-">> \o ex_end \o SP \o ex_perms \o SP \o ex_offset \o SP
      \o ex_inode \o SP \o ex_path

\* Lines that are not of the grammar
BadLines ==
    { <<>>,
      NoDeviceLine,
      ex_begin \o <<"-">> \o ex_end \o SP \o ex_perms,
      ex_begin \o SP \o ex_perms \o SP \o ex_offset \o SP \o ex_major
        \o <<":">> \o ex_minor \o SP \o ex_inode \o SP \o ex_path,
      Line(ex_begin, ex_end, <<"r","-","-","z">>, ex_offset, ex_major, ex_minor, ex_inode, ex_path),
      Line(ex_begin, ex_end, <<"r","-","-">>, ex_offset, ex_major, ex_minor, ex_inode, ex_path),
      Line(<<"5","6","0","8","D","D">>, ex_end, ex_perms, ex_offset, ex_major, ex_minor, ex_inode, ex_path),
      Line(ex_begin, ex_end, ex_perms, ex_offset, ex_major, ex_minor, <<"6","5","a">>, ex_path) }

\* A line whose address does not fit in 64 bits
WideLine ==
    Line(<<"1","0","0","0","0","0","0","0","0","0","0","0","0","0","0","0","0">>,
         ex_end, ex_perms, ex_offset, ex_major, ex_minor, ex_inode, ex_path)

\* The lines the many-line inputs are made of
FewLines ==
    { ExampleLine,
      Line(ex_begin, ex_end, <<"r","w","x","s">>, ex_offset, <<"f","d">>, <<"1","a">>, <<"0">>, <<>>),
      NoDeviceLine,
      WideLine,
      <<>> }

RECURSIVE Join(_)
\* The lines, each followed by a newline
Join(ls) == IF ls = <<>> THEN <<>> ELSE Head(ls) \o <<NL>> \o Join(Tail(ls))

\* The text of every input: one line of the wide set, or up to MaxLines lines
\* of the narrow set; the last line with or without its newline.
Inputs ==
    LET one  == {<<l>> : l \in GoodLines \cup BadLines}
        many == UNION {[1..k -> FewLines] : k \in 0..MaxLines}
        full == {Join(ls) : ls \in one \cup many}
    IN  full \cup {pop_newline(t) : t \in full}

\* --------------------------------------------------------------- the state

VARIABLES
    input,      \* the whole text of the source (never changes)
    reader,     \* Maps.reader: the text not yet read
    out,        \* what next() has returned so far, in order
    line_buf,   \* next()'s line_buf as the last call left it
    lastRead,   \* what the last read_line returned
    ioErrors,   \* the number of reads that have failed
    shown       \* the last thing formatted with Display

vars == <<input, reader, out, line_buf, lastRead, ioErrors, shown>>

NoRead == [res |-> "NoRead", n |-> 0, line |-> <<>>, rest |-> <<>>]

NotShown == [what |-> "Nothing", of |-> <<>>, text |-> <<>>]

Init ==
    /\ input \in Inputs
    /\ reader = input
    /\ out = <<>>
    /\ line_buf = <<>>
    /\ lastRead = NoRead
    /\ ioErrors = 0
    /\ shown = NotShown

\* One call of Maps::next by the consumer, who keeps no string formatted
\* from the item before
Pull ==
    /\ Len(out) < MaxPulls
    /\ \E fail \in BOOLEAN, eat \in BOOLEAN :
         /\ fail => ioErrors < MaxIoErrors
         /\ ~fail => ~eat
         /\ LET nx == next(reader, fail, eat)
            IN  /\ reader' = nx.reader
                /\ out' = Append(out, nx.item)
                /\ line_buf' = nx.line_buf
                /\ lastRead' = nx.read
                /\ ioErrors' = IF fail THEN ioErrors + 1 ELSE ioErrors
    /\ shown' = NotShown
    /\ UNCHANGED input

LastMap == Last(out).map[1]

HasMap == out # <<>> /\ Last(out).kind = "Ok"

\* format!("{}", map.address_range) on the record last yielded
ShowAddressRange ==
    /\ HasMap
    /\ shown' = [what |-> "AddressRange", of |-> <<LastMap.address_range>>,
                 text |-> fmt_AddressRange(LastMap.address_range)]
    /\ UNCHANGED <<input, reader, out, line_buf, lastRead, ioErrors>>

\* format!("{}", map.permissions) on the record last yielded
ShowPermissions ==
    /\ HasMap
    /\ shown' = [what |-> "Permissions", of |-> <<LastMap.permissions>>,
                 text |-> fmt_Permissions(LastMap.permissions)]
    /\ UNCHANGED <<input, reader, out, line_buf, lastRead, ioErrors>>

\* format!("{}", map.device) on the record last yielded
ShowDevice ==
    /\ HasMap
    /\ shown' = [what |-> "Device", of |-> <<LastMap.device>>,
                 text |-> fmt_Device(LastMap.device)]
    /\ UNCHANGED <<input, reader, out, line_buf, lastRead, ioErrors>>

Next == Pull \/ ShowAddressRange \/ ShowPermissions \/ ShowDevice

Spec == Init /\ [][Next]_vars

\* ---------------------------------------------------------------- claims

\* What the claims say in their own terms: a token's value is told by its
\* numeral (the token without its leading zeros), the lines of a text by its
\* newlines.

RECURSIVE StripZeros(_)
StripZeros(tok) ==
    IF Len(tok) > 1 /\ tok[1] = "0" THEN StripZeros(Tail(tok)) ELSE tok

U64MaxDec ==
    <<"1","8","4","4","6","7","4","4","0","7","3","7","0","9","5","5","1","6","1","5">>

\* a <= b for two numerals of one length
NumeralLeq(a, b) ==
    \/ a = b
    \/ \E i \in 1..Len(a) :
         /\ \A j \in 1..(i - 1) : a[j] = b[j]
         /\ to_digit(a[i], 10) < to_digit(b[i], 10)

\* the hex token's value is below 2^64
FitsHex(tok) == Len(StripZeros(tok)) <= 16

\* the decimal token's value is below 2^64
FitsDec(tok) ==
    LET s == StripZeros(tok)
    IN  Len(s) < 20 \/ (Len(s) = 20 /\ NumeralLeq(s, U64MaxDec))

HexFields(f) == {f.address_begin, f.address_end, f.offset, f.major, f.minor}

AllFit(f) == (\A t \in HexFields(f) : FitsHex(t)) /\ FitsDec(f.inode)

RECURSIVE LinesOf(_)
\* The lines of a text, without their newlines; a final newline ends the
\* last line and starts no other.
LinesOf(text) ==
    IF text = <<>> THEN <<>>
    ELSE LET k == CHOOSE k \in 1..(Len(text) + 1) :
                    /\ \A j \in 1..(k - 1) : text[j] # NL
                    /\ k <= Len(text) => text[k] = NL
         IN  <<SubSeq(text, 1, k - 1)>> \o LinesOf(SubSeq(text, k + 1, Len(text)))

\* the last call of next() read a line and handed line_buf to Map::parse
Decoded == lastRead.res = "Ok" /\ lastRead.n > 0

Fields == MapParser_parse(line_buf)

\* C1: a line of the grammar whose numeric tokens fit in 64 bits parses to a
\* record whose begin, end, offset, major and minor are the tokens read in
\* base 16 and whose inode is its token read in base 10.
C1_FieldsAreTokenValues ==
    (Decoded /\ Fields.ok /\ AllFit(Fields)) =>
        /\ Last(out).kind = "Ok"
        /\ Numeral(LastMap.address_range.begin, 16) = StripZeros(Fields.address_begin)
        /\ Numeral(LastMap.address_range.end, 16) = StripZeros(Fields.address_end)
        /\ Numeral(LastMap.offset, 16) = StripZeros(Fields.offset)
        /\ Numeral(LastMap.device.major, 16) = StripZeros(Fields.major)
        /\ Numeral(LastMap.device.minor, 16) = StripZeros(Fields.minor)
        /\ Numeral(LastMap.inode, 10) = StripZeros(Fields.inode)

\* the example line has been parsed: device 08:11 is major 8, minor 17, and
\* inode 6572575 is 100 * 2^16 + 18975
C1_Witness ==
    /\ Decoded /\ line_buf = ExampleLine /\ Last(out).kind = "Ok"
    /\ LastMap.device = [major |-> <<0, 0, 0, 8>>, minor |-> <<0, 0, 0, 17>>]
    /\ LastMap.inode = <<0, 0, 100, 18975>>
    /\ LastMap.address_range.begin = <<0, 22024, 56633, 4096>>

\* the classification of a pathname text, in the claim's priority order
Classified(text) ==
    CASE text = <<>> -> Pathname("Mmap", <<>>)
      [] text = <<"[","s","t","a","c","k","]">> -> Pathname("Stack", <<>>)
      [] text = <<"[","v","d","s","o","]">> -> Pathname("Vdso", <<>>)
      [] text = <<"[","v","v","a","r","]">> -> Pathname("Vvar", <<>>)
      [] text = <<"[","v","s","y","s","c","a","l","l","]">> -> Pathname("Vsyscall", <<>>)
      [] text = <<"[","h","e","a","p","]">> -> Pathname("Heap", <<>>)
      [] OTHER -> IF Head(text) = "[" /\ text[Len(text)] = "]"
                    THEN Pathname("OtherPseudo", text)
                    ELSE Pathname("Path", text)

\* C2: the pathname of a parsed record is the classification of the pathname
\* field's text: empty is Mmap, the five known names are their variants, any
\* other [...] text is OtherPseudo with the text, the rest is Path with the
\* text.
C2_PathnameClassified ==
    (Decoded /\ Last(out).kind = "Ok") =>
        LastMap.pathname = Classified(Fields.pathname)

\* a bracketed name that is not one of the five has been parsed
C2_Witness ==
    /\ Decoded /\ Last(out).kind = "Ok"
    /\ Fields.pathname = <<"[","a","n","o","n","]">>
    /\ LastMap.pathname.tag = "OtherPseudo"

\* C3: in a parsed record shared is true iff the 4th permission character
\* is s, and private is the negation of shared.
C3_SharedXorPrivate ==
    (Decoded /\ Last(out).kind = "Ok") =>
        LET p == LastMap.permissions
        IN  /\ p.shared = (Fields.permissions[4] = "s")
            /\ p.private = ~p.shared
            /\ Cardinality({b \in {"shared", "private"} : p[b]}) = 1

\* a record with a shared mapping has been parsed
C3_Witness ==
    /\ Decoded /\ Last(out).kind = "Ok"
    /\ Fields.permissions[4] = "s"
    /\ LastMap.permissions.shared /\ ~LastMap.permissions.private

\* C4 as claimed: a line of the grammar with a hex token of more than 16
\* digits gives a WidthError and no record.
C4_LongTokenIsWidthError ==
    (Decoded /\ Fields.ok /\ \E t \in HexFields(Fields) : Len(t) > 16) =>
        Last(out) = Err("WidthError")

\* C4 as amended: a line of the grammar with a hex token whose value is 2^64
\* or more (more than 16 digits after its leading zeros) gives a WidthError
\* and no record.
C4_OverflowIsWidthError ==
    (Decoded /\ Fields.ok /\ \E t \in HexFields(Fields) : ~FitsHex(t)) =>
        /\ Last(out).kind = "Err" /\ Last(out).err = "WidthError"
        /\ Last(out).map = <<>>

\* a line whose device minor is 2^64 has been refused
C4_Witness ==
    /\ Decoded /\ Fields.ok
    /\ Fields.minor = <<"1","0","0","0","0","0","0","0","0","0","0","0","0","0","0","0","0">>
    /\ Last(out) = Err("WidthError")

InputLines == LinesOf(input)

IsSuffix(s, t) ==
    Len(s) <= Len(t) /\ s = SubSeq(t, Len(t) - Len(s) + 1, Len(t))

\* what a line decodes to, as the claims tell it: a line that is not of the
\* grammar is a ParseError, one with a token that does not fit a WidthError
Undecodable(l) ==
    IF ~MapParser_parse(l).ok THEN "ParseError"
    ELSE IF ~AllFit(MapParser_parse(l)) THEN "WidthError"
    ELSE ""

\* C5: when no read fails, the items are the results of the input's lines,
\* one per line and in order, and every item after them is None (so an empty
\* input yields no item at all).
C5_OneItemPerLine ==
    ioErrors = 0 =>
        LET lines == InputLines
        IN  \A i \in 1..Len(out) :
                IF i <= Len(lines)
                  THEN out[i] = parse(lines[i])
                  ELSE out[i] = None

\* two lines, the last without a newline, have yielded two items and then
\* None
C5_Witness ==
    /\ ioErrors = 0 /\ Len(InputLines) = 2 /\ ~ends_with(input, NL)
    /\ Len(out) = 3 /\ out[3] = None
    /\ \A i \in 1..2 : out[i].kind # "None"

\* C6: when no read fails, a line that does not decode is yielded as an
\* error item of its kind, without a record, and every later line is still
\* yielded with the result of that line.
C6_DecodeErrorDoesNotEnd ==
    ioErrors = 0 =>
        LET lines == InputLines
        IN  \A i \in 1..Len(out) :
                (i <= Len(lines) /\ Undecodable(lines[i]) # "") =>
                    /\ out[i].kind = "Err"
                    /\ out[i].err = Undecodable(lines[i])
                    /\ out[i].map = <<>>
                    /\ \A j \in (i + 1)..Len(out) :
                           j <= Len(lines) => out[j] = parse(lines[j])

\* the line without its device field and then the example: an error item
\* and then the example's record
C6_Witness ==
    /\ ioErrors = 0 /\ Len(out) >= 2 /\ Len(InputLines) = 2
    /\ InputLines[1] = NoDeviceLine /\ out[1] = Err("ParseError")
    /\ InputLines[2] = ExampleLine /\ out[2].kind = "Ok"

\* C7 as claimed: a Device is rendered as its major and its minor in
\* hexadecimal, each zero-padded to 2 digits, joined by "-".
C7_DeviceRendersHex ==
    shown.what = "Device" =>
        shown.text = PadZero(Numeral(shown.of[1].major, 16), 2) \o <<"-">>
                       \o PadZero(Numeral(shown.of[1].minor, 16), 2)

\* C8 as claimed: a Permissions with private = ~shared is rendered as a mask
\* of r or -, w or -, x or -, s or p, and a line of the grammar that carries
\* the mask parses to the same Permissions.
C8_PermissionsRoundTrip ==
    (shown.what = "Permissions" /\ shown.of[1].private = ~shown.of[1].shared) =>
        /\ Len(shown.text) = 4
        /\ shown.text[1] \in {"r", "-"}
        /\ shown.text[2] \in {"w", "-"}
        /\ shown.text[3] \in {"x", "-"}
        /\ shown.text[4] \in {"s", "p"}
        /\ LET back == parse(Line(ex_begin, ex_end, shown.text, ex_offset,
                                  ex_major, ex_minor, ex_inode, ex_path))
           IN  back.kind = "Ok" /\ back.map[1].permissions = shown.of[1]

\* C9: the text handed to Map::parse is the line as read without its final
\* newline when it has one, and the line as read otherwise.
C9_OneTerminatorStripped ==
    Decoded =>
        /\ Last(out) = parse(line_buf)
        /\ IF lastRead.line[Len(lastRead.line)] = NL
             THEN line_buf \o <<NL>> = lastRead.line
             ELSE line_buf = lastRead.line

\* a line that ended in "\r\n" was handed over with its "\r"
C9_Witness ==
    /\ Decoded /\ ends_with(lastRead.line, NL)
    /\ ends_with(line_buf, "\r")
    /\ Len(line_buf) = Len(lastRead.line) - 1

====
